---- MODULE Spec2Model ----
(***************************************************************************)
(* FunASR command-line glue: funasr/bin/infer.py (main, inference) and     *)
(* funasr/export/export_encoder_decoder.py (ModelExport).                   *)
(*                                                                          *)
(* Python strings are sequences of one-character strings, so that           *)
(* str.split, str.strip, str.endswith and int() are computed, not assumed.  *)
(* Python's None is the one-element sequence <<"None">>, which no string    *)
(* of characters equals.                                                    *)
(***************************************************************************)
EXTENDS Integers, Sequences, FiniteSets, TLC

VARIABLES
    \* ---- funasr/bin/infer.py: one run of main ----
    ngpu,                 \* args.ngpu
    njob,                 \* args.njob
    output_dir,           \* args.output_dir
    gpuid_list,           \* args.gpuid_list
    word_lm_train_config, \* kwargs["word_lm_train_config"]
    environ,              \* os.environ, the two CUDA entries
    pc,                   \* position of main / inference
    exc,                  \* exception that ended the run, or None
    jobid,                \* local of main
    gpuid,                \* local of main
    device,               \* local of inference
    speech2output,        \* local of inference
    inference_pipeline,   \* local of main: what inference(kwargs) returned
    result,               \* what main returned
    calls,                \* the run's side effects and collaborator calls, in order
    \* ---- ModelExport.parse_audio_in ----
    audio_in,             \* argument
    calib_num,            \* self.calib_num
    manifest,             \* the lines of the file named audio_in
    ppc,                  \* position inside parse_audio_in
    pexc,                 \* exception that ended the call, or None
    lines,                \* local: f.readlines()[:self.calib_num]
    wav_list,             \* local
    name_list,            \* local
    pret,                 \* the returned tuple, or None
    opened,               \* number of open() calls made
    \* ---- ModelExport.export / _export_model ----
    mode,                 \* argument of export
    fs,                   \* model_dir: file name -> bytes, or None when absent
    epc,                  \* position inside export
    sub,                  \* which _export_model call of export is running
    run,                  \* number of export() invocations started
    xlog                  \* collaborator calls of the current export() invocation

mainVars == <<ngpu, njob, output_dir, gpuid_list, word_lm_train_config, environ, pc,
              exc, jobid, gpuid, device, speech2output, inference_pipeline, result,
              calls>>
parseVars == <<audio_in, calib_num, manifest, ppc, pexc, lines, wav_list, name_list,
               pret, opened>>
exportVars == <<mode, fs, epc, sub, run, xlog>>
vars == <<mainVars, parseVars, exportVars>>

-----------------------------------------------------------------------------
\* Bounds of the model

MaxNgpu == 2
MaxNjob == 2
MaxJob == 10
MaxGpus == 3
MaxLines == 3
MaxCalib == 3
MaxRuns == 2

-----------------------------------------------------------------------------
\* Python values and string operations

None == <<"None">>

Whitespace == {" ", "\t", "\n"}

DigitChars == <<"0", "1", "2", "3", "4", "5", "6", "7", "8", "9">>

IsDigit(c) == \E d \in 1..10 : DigitChars[d] = c

DigitVal(c) == (CHOOSE d \in 1..10 : DigitChars[d] = c) - 1

\* str(n) for n >= 0
RECURSIVE IntToStr(_)
IntToStr(n) ==
    IF n < 10 THEN <<DigitChars[n + 1]>>
    ELSE IntToStr(n \div 10) \o <<DigitChars[(n % 10) + 1]>>

\* s.split(sep) for a one-character sep: always at least one piece
RECURSIVE SplitOn(_, _)
SplitOn(s, sep) ==
    IF s = <<>> THEN << <<>> >>
    ELSE LET rest == SplitOn(Tail(s), sep)
         IN  IF Head(s) = sep
             THEN << <<>> >> \o rest
             ELSE << <<Head(s)>> \o Head(rest) >> \o Tail(rest)

\* sep.join(parts)
RECURSIVE Join(_, _)
Join(parts, sep) ==
    IF parts = <<>> THEN <<>>
    ELSE IF Len(parts) = 1 THEN parts[1]
    ELSE parts[1] \o <<sep>> \o Join(Tail(parts), sep)

\* s.lstrip(), s.rstrip(), s.strip()
RECURSIVE LStrip(_)
LStrip(s) ==
    IF s # <<>> /\ Head(s) \in Whitespace THEN LStrip(Tail(s)) ELSE s

RECURSIVE RStrip(_)
RStrip(s) ==
    IF s # <<>> /\ s[Len(s)] \in Whitespace
    THEN RStrip(SubSeq(s, 1, Len(s) - 1))
    ELSE s

Strip(s) == RStrip(LStrip(s))

\* s.split() with no argument: the maximal runs of non-whitespace characters
RECURSIVE SplitWs(_)
SplitWs(s) ==
    IF s = <<>> THEN <<>>
    ELSE IF Head(s) \in Whitespace THEN SplitWs(Tail(s))
    ELSE LET rest == SplitWs(Tail(s))
         IN  IF Len(s) > 1 /\ s[2] \notin Whitespace
             THEN << <<Head(s)>> \o Head(rest) >> \o Tail(rest)
             ELSE << <<Head(s)>> >> \o rest

\* s.endswith(suffix)
EndsWith(s, suffix) ==
    /\ Len(s) >= Len(suffix)
    /\ SubSeq(s, Len(s) - Len(suffix) + 1, Len(s)) = suffix

RECURSIVE DigitsValue(_)
DigitsValue(ds) ==
    IF ds = <<>> THEN 0
    ELSE 10 * DigitsValue(SubSeq(ds, 1, Len(ds) - 1)) + DigitVal(ds[Len(ds)])

\* int(s): surrounding whitespace is dropped, one sign is allowed, and what is
\* left must be a non-empty run of decimal digits; otherwise ValueError.
\* (Underscores between digits and non-ASCII digits, which int() also takes, do not
\* occur in OutputDirs.)
ParseInt(s) ==
    LET t == Strip(s)
        signed == t # <<>> /\ Head(t) \in {"+", "-"}
        body == IF signed THEN Tail(t) ELSE t
        good == body # <<>> /\ \A k \in 1..Len(body) : IsDigit(body[k])
    IN  IF good
        THEN [ok |-> TRUE,
              val |-> IF signed /\ Head(t) = "-" THEN 0 - DigitsValue(body)
                      ELSE DigitsValue(body)]
        ELSE [ok |-> FALSE, val |-> 0]

\* a // b for b > 0 (Python floors, as \div does); b = 0 is ZeroDivisionError, which
\* SelectGpu raises itself, and njob < 0 is not among the runs modelled
FloorDiv(a, b) == a \div b

\* list[i]: indices -Len..Len-1 are valid, a negative one counts from the end
PyIndexWrapMut(list, i) ==
    [ok |-> TRUE, val |-> list[(i % Len(list)) + 1]]

PyIndex(list, i) ==
    IF 0 <= i /\ i < Len(list) THEN [ok |-> TRUE, val |-> list[i + 1]]
    ELSE IF 0 - Len(list) <= i /\ i < 0 THEN [ok |-> TRUE, val |-> list[Len(list) + i + 1]]
    ELSE [ok |-> FALSE, val |-> None]

-----------------------------------------------------------------------------
\* funasr/bin/infer.py: the command lines a run of main is started with

Unbound == <<"unbound">>

PCI_BUS_ID == <<"P", "C", "I", "_", "B", "U", "S", "_", "I", "D">>

\* the object build_speech2output returns, and what calling it returns
Speech2Output == <<"Speech2Output">>

Results == <<"results">>

\* the last dot-separated token of --output_dir: a job number, or not a number
JobSuffixes == {IntToStr(j) : j \in 0..MaxJob} \cup {<<"-", "1">>, <<"x">>, <<>>}

DirPrefixes == {<<"o", ".">>, <<"o", ".", "2", ".">>}

OutputDirs == {p \o s : p \in DirPrefixes, s \in JobSuffixes} \cup {<<"o">>, <<"5">>}

GpuIds == {<<"0">>, <<"1">>}

\* --gpuid_list: up to MaxGpus ids joined by commas ("" is the parser's default)
GpuIdLists == {Join(ids, ",") : ids \in UNION {[1..n -> GpuIds] : n \in 0..MaxGpus}}

\* os.environ when the process starts: the two entries absent, or left by the caller
InitialEnvirons ==
    {[CUDA_DEVICE_ORDER |-> None, CUDA_VISIBLE_DEVICES |-> None],
     [CUDA_DEVICE_ORDER |-> <<"F">>, CUDA_VISIBLE_DEVICES |-> <<"9">>]}

MainLocalsInit ==
    /\ exc = "none"
    /\ jobid = 0
    /\ gpuid = Unbound
    /\ device = "unbound"
    /\ speech2output = Unbound
    /\ inference_pipeline = Unbound
    /\ result = Unbound
    /\ calls = <<>>

MainStart ==
    /\ ngpu \in 0..MaxNgpu
    /\ njob \in 0..MaxNjob
    /\ output_dir \in OutputDirs
    /\ gpuid_list \in GpuIdLists
    /\ word_lm_train_config \in {None, <<"w">>}
    /\ environ \in InitialEnvirons
    /\ pc = "main"
    /\ MainLocalsInit

MainIdle ==
    /\ ngpu = 0
    /\ njob = 1
    /\ output_dir = <<>>
    /\ gpuid_list = <<>>
    /\ word_lm_train_config = None
    /\ environ = [CUDA_DEVICE_ORDER |-> None, CUDA_VISIBLE_DEVICES |-> None]
    /\ pc = "idle"
    /\ MainLocalsInit

mainInputs == <<ngpu, njob, output_dir, gpuid_list, word_lm_train_config>>

Raise(e) == pc' = "raised" /\ exc' = e

-----------------------------------------------------------------------------
\* main

\* if args.ngpu > 0:
GpuRequestedMut == ngpu >= 0

GpuRequested == ngpu > 0

GpuSetting ==
    /\ pc = "main"
    /\ pc' = IF GpuRequested THEN "jobid" ELSE "inference"
    /\ UNCHANGED <<mainInputs, environ, exc, jobid, gpuid, device, speech2output,
                   inference_pipeline, result, calls>>
    /\ UNCHANGED <<parseVars, exportVars>>

\* jobid = int(args.output_dir.split(".")[-1])
JobIdToken == LET parts == SplitOn(output_dir, ".") IN parts[Len(parts)]

ParseJobId ==
    /\ pc = "jobid"
    /\ calls' = Append(calls, "int(output_dir)")
    /\ LET r == ParseInt(JobIdToken)
       IN  IF r.ok
           THEN jobid' = r.val /\ pc' = "gpuid" /\ exc' = exc
           ELSE jobid' = jobid /\ Raise("ValueError")
    /\ UNCHANGED <<mainInputs, environ, gpuid, device, speech2output,
                   inference_pipeline, result>>
    /\ UNCHANGED <<parseVars, exportVars>>

\* gpuid = args.gpuid_list.split(",")[(jobid - 1) // args.njob]
PyIndexClampMut(list, i) ==
    IF i >= Len(list) THEN [ok |-> TRUE, val |-> list[Len(list)]] ELSE PyIndex(list, i)

GpuListIndex(list, i) == PyIndex(list, i)

SelectGpu ==
    /\ pc = "gpuid"
    /\ IF njob = 0
       THEN /\ Raise("ZeroDivisionError")
            /\ UNCHANGED <<gpuid, calls>>
       ELSE LET r == GpuListIndex(SplitOn(gpuid_list, ","), FloorDiv(jobid - 1, njob))
            IN  /\ calls' = Append(calls, "gpuid_list[]")
                /\ IF r.ok
                   THEN gpuid' = r.val /\ pc' = "env_order" /\ exc' = exc
                   ELSE gpuid' = gpuid /\ Raise("IndexError")
    /\ UNCHANGED <<mainInputs, environ, jobid, device, speech2output,
                   inference_pipeline, result>>
    /\ UNCHANGED <<parseVars, exportVars>>

\* os.environ["CUDA_DEVICE_ORDER"] = "PCI_BUS_ID"
SetDeviceOrder ==
    /\ pc = "env_order"
    /\ environ' = [environ EXCEPT !.CUDA_DEVICE_ORDER = PCI_BUS_ID]
    /\ calls' = Append(calls, "environ[CUDA_DEVICE_ORDER]")
    /\ pc' = "env_visible"
    /\ UNCHANGED <<mainInputs, exc, jobid, gpuid, device, speech2output,
                   inference_pipeline, result>>
    /\ UNCHANGED <<parseVars, exportVars>>

\* os.environ["CUDA_VISIBLE_DEVICES"] = gpuid
VisibleDevicesValueMut == gpuid_list

VisibleDevicesValue == gpuid

SetVisibleDevices ==
    /\ pc = "env_visible"
    /\ environ' = [environ EXCEPT !.CUDA_VISIBLE_DEVICES = VisibleDevicesValue]
    /\ calls' = Append(calls, "environ[CUDA_VISIBLE_DEVICES]")
    /\ pc' = "inference"
    /\ UNCHANGED <<mainInputs, exc, jobid, gpuid, device, speech2output,
                   inference_pipeline, result>>
    /\ UNCHANGED <<parseVars, exportVars>>

-----------------------------------------------------------------------------
\* inference(kwargs), called from main
\* (check_argument_types, torch.set_num_threads and the logging set-up of lines
\* 258-273 touch none of the state below and are left out.)

\* if kwargs.get("word_lm_train_config", 1) is not None: raise NotImplementedError
\* (argparse always puts the key in kwargs, so the default 1 is never used)
CheckWordLm ==
    /\ pc = "inference"
    /\ IF word_lm_train_config # None
       THEN Raise("NotImplementedError")
       ELSE pc' = "ngpu_check" /\ exc' = exc
    /\ UNCHANGED <<mainInputs, environ, jobid, gpuid, device, speech2output,
                   inference_pipeline, result, calls>>
    /\ UNCHANGED <<parseVars, exportVars>>

\* if kwargs.get("ngpu", 1) > 1: raise NotImplementedError
MultiGpuRequestedMut == ngpu > 2

MultiGpuRequested == ngpu > 1

CheckNgpu ==
    /\ pc = "ngpu_check"
    /\ IF MultiGpuRequested
       THEN Raise("NotImplementedError")
       ELSE pc' = "device" /\ exc' = exc
    /\ UNCHANGED <<mainInputs, environ, jobid, gpuid, device, speech2output,
                   inference_pipeline, result, calls>>
    /\ UNCHANGED <<parseVars, exportVars>>

\* if kwargs.get("ngpu", 1) >= 1 and torch.cuda.is_available(): device = "cuda"
\* else: device = "cpu"
SelectDevice ==
    /\ pc = "device"
    /\ \E cuda_is_available \in BOOLEAN :
          device' = IF ngpu >= 1 /\ cuda_is_available THEN "cuda" ELSE "cpu"
    /\ pc' = "seed"
    /\ UNCHANGED <<mainInputs, environ, exc, jobid, gpuid, speech2output,
                   inference_pipeline, result, calls>>
    /\ UNCHANGED <<parseVars, exportVars>>

\* set_all_random_seed(kwargs["seed"])
SetSeed ==
    /\ pc = "seed"
    /\ calls' = Append(calls, "set_all_random_seed")
    /\ pc' = "build"
    /\ UNCHANGED <<mainInputs, environ, exc, jobid, gpuid, device, speech2output,
                   inference_pipeline, result>>
    /\ UNCHANGED <<parseVars, exportVars>>

\* speech2output = build_speech2output(kwargs)
BuildSpeech2Output ==
    /\ pc = "build"
    /\ speech2output' = Speech2Output
    /\ calls' = Append(calls, "build_speech2output")
    /\ pc' = "inference_end"
    /\ UNCHANGED <<mainInputs, environ, exc, jobid, gpuid, device,
                   inference_pipeline, result>>
    /\ UNCHANGED <<parseVars, exportVars>>

\* The body of inference ends after the assignment to speech2output: there is no
\* return statement, so the call evaluates to None.
InferenceReturnValue == None

\* inference_pipeline = inference(kwargs)
InferenceReturn ==
    /\ pc = "inference_end"
    /\ inference_pipeline' = InferenceReturnValue
    /\ pc' = "invoke"
    /\ UNCHANGED <<mainInputs, environ, exc, jobid, gpuid, device, speech2output,
                   result, calls>>
    /\ UNCHANGED <<parseVars, exportVars>>

\* return inference_pipeline(kwargs["data_path_and_name_and_type"], hotword=...)
InvokePipeline ==
    /\ pc = "invoke"
    /\ IF inference_pipeline = None
       THEN /\ Raise("TypeError")
            /\ UNCHANGED <<result, calls>>
       ELSE /\ calls' = Append(calls, "inference_pipeline()")
            /\ result' = Results
            /\ pc' = "done"
            /\ exc' = exc
    /\ UNCHANGED <<mainInputs, environ, jobid, gpuid, device, speech2output,
                   inference_pipeline>>
    /\ UNCHANGED <<parseVars, exportVars>>

NextMain ==
    \/ GpuSetting
    \/ ParseJobId
    \/ SelectGpu
    \/ SetDeviceOrder
    \/ SetVisibleDevices
    \/ CheckWordLm
    \/ CheckNgpu
    \/ SelectDevice
    \/ SetSeed
    \/ BuildSpeech2Output
    \/ InferenceReturn
    \/ InvokePipeline

-----------------------------------------------------------------------------
\* funasr/export/export_encoder_decoder.py: ModelExport.parse_audio_in

DotScp == <<".", "s", "c", "p">>

Test == <<"t", "e", "s", "t">>

AudioIns ==
    {<<"a", ".", "s", "c", "p">>, DotScp, <<"a", ".", "w", "a", "v">>,
     <<"s", "c", "p">>, <<"a", ".", "s", "c", "p", "x">>, <<>>}

\* lines as readlines() gives them: with their newline, but for a last line without
ManifestLines ==
    {<<"u", " ", "a", "\n">>, <<"v", " ", "b">>, <<" ", "u", "\t", " ", "a", " ", "\n">>,
     <<"u", "\n">>, <<"\n">>, <<"u", " ", "a", " ", "b", "\n">>}

\* the file named audio_in: its lines, or None when there is no such file
Manifests == UNION {[1..n -> ManifestLines] : n \in 0..MaxLines} \cup {None}

ParseLocalsInit ==
    /\ pexc = "none"
    /\ lines = <<>>
    /\ wav_list = <<>>
    /\ name_list = <<>>
    /\ pret = None
    /\ opened = 0

ParseStart ==
    /\ audio_in \in AudioIns
    /\ calib_num \in (0 - 1)..MaxCalib
    /\ manifest \in Manifests
    /\ ppc = "start"
    /\ ParseLocalsInit

ParseIdle ==
    /\ audio_in = <<>>
    /\ calib_num = 0
    /\ manifest = None
    /\ ppc = "idle"
    /\ ParseLocalsInit

parseInputs == <<audio_in, calib_num, manifest>>

\* list[:n]
PySliceToAllMut(list, n) == list

PySliceTo(list, n) ==
    IF n >= 0
    THEN SubSeq(list, 1, IF n < Len(list) THEN n ELSE Len(list))
    ELSE SubSeq(list, 1, IF Len(list) + n > 0 THEN Len(list) + n ELSE 0)

\* if audio_in.endswith(".scp"):
IsManifestMut == EndsWith(audio_in, Tail(DotScp))

IsManifest == EndsWith(audio_in, DotScp)

\* f = open(audio_in, 'r'); lines = f.readlines()[:self.calib_num]
ParseOpenScp ==
    /\ ppc = "start"
    /\ IsManifest
    /\ opened' = opened + 1
    /\ IF manifest = None
       THEN ppc' = "raised" /\ pexc' = "FileNotFoundError" /\ lines' = lines
       ELSE ppc' = "loop" /\ pexc' = pexc /\ lines' = PySliceTo(manifest, calib_num)
    /\ UNCHANGED <<parseInputs, wav_list, name_list, pret>>
    /\ UNCHANGED <<mainVars, exportVars>>

\* name, path = line.strip().split(): unpacking needs exactly two values
UnpacksToTwoMut(toks) == Len(toks) >= 2

UnpacksToTwo(toks) == Len(toks) = 2

\* one iteration of: for line in lines
ParseLine ==
    /\ ppc = "loop"
    /\ Len(name_list) < Len(lines)
    /\ LET toks == SplitWs(Strip(lines[Len(name_list) + 1]))
       IN  IF UnpacksToTwo(toks)
           THEN /\ name_list' = Append(name_list, toks[1])
                /\ wav_list' = Append(wav_list, toks[2])
                /\ UNCHANGED <<ppc, pexc>>
           ELSE /\ ppc' = "raised"
                /\ pexc' = "ValueError"
                /\ UNCHANGED <<name_list, wav_list>>
    /\ UNCHANGED <<parseInputs, lines, pret, opened>>
    /\ UNCHANGED <<mainVars, exportVars>>

\* else: wav_list = [audio_in,]; name_list = ["test",]
ParseSingle ==
    /\ ppc = "start"
    /\ ~IsManifest
    /\ wav_list' = <<audio_in>>
    /\ name_list' = <<Test>>
    /\ ppc' = "return"
    /\ UNCHANGED <<parseInputs, pexc, lines, pret, opened>>
    /\ UNCHANGED <<mainVars, exportVars>>

\* return wav_list, name_list
ReturnValue == <<wav_list, name_list>>

ParseReturn ==
    /\ \/ ppc = "return"
       \/ ppc = "loop" /\ Len(name_list) >= Len(lines)
    /\ pret' = ReturnValue
    /\ ppc' = "done"
    /\ UNCHANGED <<parseInputs, pexc, lines, wav_list, name_list, opened>>
    /\ UNCHANGED <<mainVars, exportVars>>

NextParse ==
    \/ ParseOpenScp
    \/ ParseLine
    \/ ParseSingle
    \/ ParseReturn

-----------------------------------------------------------------------------
\* funasr/export/export_encoder_decoder.py: ModelExport.export, _export_model

Conformer == <<"c", "o", "n", "f", "o", "r", "m", "e", "r">>

Modes == {Conformer, Conformer \o <<"2">>, <<"c", "o", "n", "f">>, <<"p", "a", "r", "a">>}

\* s.startswith(prefix)
StartsWith(s, prefix) ==
    /\ Len(s) >= Len(prefix)
    /\ SubSeq(s, 1, Len(prefix)) = prefix

\* model.model_name of the three wrapped sub-models, in the order export passes them
\* to _export_model
ModelNameOf == <<"encoder", "decoder", "ctc">>

NumSubModels == Len(ModelNameOf)

\* os.path.join(path, f'{model.model_name}.onnx'): one file of model_dir per name
FileNames == {ModelNameOf[k] : k \in 1..NumSubModels}

\* bytes of a file that was in model_dir before, and bytes torch.onnx.export writes
OldBytes == <<"old">>

ExportedBytes(k) == <<"onnx", ModelNameOf[k]>>

ExportStart ==
    /\ mode \in Modes
    /\ fs \in [FileNames -> {None, OldBytes}]
    /\ epc = "start"
    /\ sub = 0
    /\ run = 0
    /\ xlog = <<>>

ExportIdle ==
    /\ mode = <<>>
    /\ fs = [n \in FileNames |-> None]
    /\ epc = "idle"
    /\ sub = 0
    /\ run = 0
    /\ xlog = <<>>

\* if mode.startswith('conformer'): ... ASRTask.build_model_from_file(...)
ExportEnter ==
    /\ epc = "start"
    /\ run' = run + 1
    /\ IF StartsWith(mode, Conformer)
       THEN /\ xlog' = << <<"build_model_from_file", 0>> >>
            /\ sub' = 1
            /\ epc' = "dummy"
       ELSE /\ xlog' = <<>>
            /\ sub' = 0
            /\ epc' = "returned"
    /\ UNCHANGED <<mode, fs>>
    /\ UNCHANGED <<mainVars, parseVars>>

\* _export_model: dummy_input = model.get_dummy_inputs(...)
GetDummyInputs ==
    /\ epc = "dummy"
    /\ xlog' = Append(xlog, <<"get_dummy_inputs", sub>>)
    /\ epc' = "exists"
    /\ UNCHANGED <<mode, fs, sub, run>>
    /\ UNCHANGED <<mainVars, parseVars>>

\* if not os.path.exists(model_path):
TargetAbsentMut(name) == TRUE

TargetAbsent(name) == fs[name] = None

\* _export_model: torch.onnx.export(model_script, dummy_input, model_path, ...) when the
\* file is absent; then export goes on to its next sub-model, or returns
ExportIfAbsent ==
    /\ epc = "exists"
    /\ IF TargetAbsent(ModelNameOf[sub])
       THEN /\ fs' = [fs EXCEPT ![ModelNameOf[sub]] = ExportedBytes(sub)]
            /\ xlog' = Append(xlog, <<"torch.onnx.export", sub>>)
       ELSE UNCHANGED <<fs, xlog>>
    /\ IF sub < NumSubModels
       THEN sub' = sub + 1 /\ epc' = "dummy"
       ELSE sub' = sub /\ epc' = "returned"
    /\ UNCHANGED <<mode, run>>
    /\ UNCHANGED <<mainVars, parseVars>>

\* for model_name in args.model_name: export_model.export(model_name, args.export_dir)
ExportAgain ==
    /\ epc = "returned"
    /\ run < MaxRuns
    /\ mode' \in Modes
    /\ epc' = "start"
    /\ UNCHANGED <<fs, sub, run, xlog>>
    /\ UNCHANGED <<mainVars, parseVars>>

NextExport ==
    \/ ExportEnter
    \/ GetDummyInputs
    \/ ExportIfAbsent
    \/ ExportAgain

-----------------------------------------------------------------------------
\* Specifications: each program alone, and any of them

InitMain == MainStart /\ ParseIdle /\ ExportIdle

InitParse == MainIdle /\ ParseStart /\ ExportIdle

InitExport == MainIdle /\ ParseIdle /\ ExportStart

SpecMain == InitMain /\ [][NextMain]_vars

SpecParse == InitParse /\ [][NextParse]_vars

SpecExport == InitExport /\ [][NextExport]_vars

Init == InitMain \/ InitParse \/ InitExport

Next == NextMain \/ NextParse \/ NextExport

Spec == Init /\ [][Next]_vars

-----------------------------------------------------------------------------
\* Properties of main and inference (checked under SpecMain)

InCalls(e) == \E k \in DOMAIN calls : calls[k] = e

CountCalls(e) == Cardinality({k \in DOMAIN calls : calls[k] = e})

EnvWritten ==
    InCalls("environ[CUDA_DEVICE_ORDER]") \/ InCalls("environ[CUDA_VISIBLE_DEVICES]")

ModelTouched == InCalls("set_all_random_seed") \/ InCalls("build_speech2output")

\* the indexing of line 317 was evaluated (so jobid parsed and njob is not 0)
IndexAttempted == InCalls("gpuid_list[]")

GpuIdList == SplitOn(gpuid_list, ",")

GroupIndex == (jobid - 1) \div njob

StartupErrors == {"NotImplementedError", "IndexError", "ValueError", "ZeroDivisionError"}

InsideInference ==
    \/ pc \in {"inference", "ngpu_check", "device", "seed", "build", "inference_end",
               "invoke", "done"}
    \/ pc = "raised" /\ exc \in {"NotImplementedError", "TypeError"}

\* C1: for job_index >= 1 and jobs_per_gpu >= 1, once main has indexed the list
\* gpuid_list.split(","), of length L, with group = (job_index-1) // jobs_per_gpu:
\* the selected id is element group of the list when group < L, and otherwise the
\* run has ended in IndexError with no id selected (no wrap-around, no clamping).
C1_GpuSelection ==
    (IndexAttempted /\ jobid >= 1 /\ njob >= 1) =>
        IF GroupIndex < Len(GpuIdList)
        THEN exc # "IndexError" /\ gpuid = GpuIdList[GroupIndex + 1]
        ELSE pc = "raised" /\ exc = "IndexError" /\ gpuid = Unbound

\* jobs_per_gpu = 2, three ids, job 7: group 3 is out of range
C1_Witness ==
    /\ njob = 2
    /\ jobid = 7
    /\ Len(GpuIdList) = 3
    /\ exc = "IndexError"

\* C2, as stated: with ngpu > 1 the not-implemented error is raised before
\* CUDA_DEVICE_ORDER or CUDA_VISIBLE_DEVICES is written, before the seed is set and
\* before build_speech2output is called.
C2_Original_ErrorBeforeDeviceAssignment ==
    (ngpu > 1 /\ exc = "NotImplementedError") => (~EnvWritten /\ ~ModelTouched)

\* C2, amended: with ngpu > 1 the run never sets the seed, never calls
\* build_speech2output and never completes; it ends in an error, and when that error
\* is the not-implemented one, main has by then parsed the job index, indexed the GPU
\* list and written both CUDA_DEVICE_ORDER and CUDA_VISIBLE_DEVICES.
C2_Amended ==
    ngpu > 1 =>
        /\ ~ModelTouched
        /\ pc \notin {"device", "seed", "build", "inference_end", "invoke", "done"}
        /\ pc = "raised" => exc \in StartupErrors
        /\ exc \in {"ValueError", "ZeroDivisionError", "IndexError"} => ~EnvWritten
        /\ exc = "NotImplementedError" =>
              /\ calls = <<"int(output_dir)", "gpuid_list[]",
                           "environ[CUDA_DEVICE_ORDER]", "environ[CUDA_VISIBLE_DEVICES]">>
              /\ environ.CUDA_DEVICE_ORDER = PCI_BUS_ID
              /\ environ.CUDA_VISIBLE_DEVICES = gpuid

C2_Witness ==
    /\ ngpu = 2
    /\ word_lm_train_config = None
    /\ exc = "NotImplementedError"
    /\ environ.CUDA_DEVICE_ORDER = PCI_BUS_ID
    /\ environ.CUDA_VISIBLE_DEVICES = <<"1">>

\* C3: in a run with ngpu > 0, each of the two variables is written at most once;
\* any call of set_all_random_seed, build_speech2output or the pipeline comes after
\* both writes; and from the call of inference on, each has been written exactly
\* once, CUDA_DEVICE_ORDER holds "PCI_BUS_ID" and CUDA_VISIBLE_DEVICES holds the
\* selected GPU id.
C3_EnvWrittenOnceBeforeInit ==
    ngpu > 0 =>
        /\ CountCalls("environ[CUDA_DEVICE_ORDER]") <= 1
        /\ CountCalls("environ[CUDA_VISIBLE_DEVICES]") <= 1
        /\ \A k \in DOMAIN calls :
              calls[k] \in {"set_all_random_seed", "build_speech2output",
                            "inference_pipeline()"}
              => \E i, j \in 1..(k - 1) :
                    /\ calls[i] = "environ[CUDA_DEVICE_ORDER]"
                    /\ calls[j] = "environ[CUDA_VISIBLE_DEVICES]"
        /\ InsideInference =>
              /\ CountCalls("environ[CUDA_DEVICE_ORDER]") = 1
              /\ CountCalls("environ[CUDA_VISIBLE_DEVICES]") = 1
              /\ environ.CUDA_DEVICE_ORDER = PCI_BUS_ID
              /\ environ.CUDA_VISIBLE_DEVICES = gpuid
              /\ (jobid >= 1 /\ njob >= 1) => gpuid = GpuIdList[GroupIndex + 1]

\* job 2 of a run with one job per GPU, after the model was built
C3_Witness ==
    /\ ngpu = 1
    /\ njob = 1
    /\ jobid = 2
    /\ gpuid_list = <<"0", ",", "1">>
    /\ InCalls("build_speech2output")
    /\ environ.CUDA_VISIBLE_DEVICES = <<"1">>

\* C4: with ngpu > 0, once main has indexed the GPU list with a group index that is
\* not below its length, the run has ended in IndexError, neither variable was
\* written, and neither set_all_random_seed nor build_speech2output was called.
C4_IndexErrorBeforeLoading ==
    (ngpu > 0 /\ IndexAttempted /\ GroupIndex >= Len(GpuIdList)) =>
        /\ pc = "raised"
        /\ exc = "IndexError"
        /\ ~EnvWritten
        /\ environ \in InitialEnvirons
        /\ ~ModelTouched

C4_Witness ==
    /\ ngpu = 1
    /\ njob = 1
    /\ jobid = 4
    /\ Len(GpuIdList) = 3
    /\ pc = "raised"
    /\ exc = "IndexError"

\* C5: with ngpu = 0, whatever output_dir, njob and gpuid_list are, the run never
\* parses a job index, never indexes the GPU list, writes neither variable, raises
\* none of the errors of device selection, and the device inference selects is "cpu".
C5_CpuSkipsDeviceSelection ==
    ngpu = 0 =>
        /\ ~InCalls("int(output_dir)")
        /\ ~IndexAttempted
        /\ jobid = 0
        /\ gpuid = Unbound
        /\ ~EnvWritten
        /\ environ \in InitialEnvirons
        /\ exc \notin {"ValueError", "ZeroDivisionError", "IndexError"}
        /\ device \in {"unbound", "cpu"}
        /\ pc \in {"seed", "build", "inference_end", "invoke", "done"} => device = "cpu"

\* an output_dir with no job number and njob = 0 would fail device selection
C5_Witness ==
    /\ ngpu = 0
    /\ njob = 0
    /\ output_dir = <<"o">>
    /\ environ.CUDA_VISIBLE_DEVICES = <<"9">>
    /\ device = "cpu"
    /\ InCalls("build_speech2output")

\* C10, as stated: a run that ends without a startup error has invoked the callable
\* build_speech2output produced, exactly once, and returned that call's results.
C10_PipelineInvokedOnce ==
    (pc \in {"done", "raised"} /\ exc \notin StartupErrors) =>
        /\ pc = "done"
        /\ speech2output = Speech2Output
        /\ inference_pipeline = speech2output
        /\ CountCalls("inference_pipeline()") = 1
        /\ result = Results

-----------------------------------------------------------------------------
\* Properties of parse_audio_in (checked under SpecParse)

\* audio_in names a manifest
IsScpName(s) ==
    /\ Len(s) >= 4
    /\ s[Len(s) - 3] = "."
    /\ s[Len(s) - 2] = "s"
    /\ s[Len(s) - 1] = "c"
    /\ s[Len(s)] = "p"

\* what each well-formed line of ManifestLines says: <<name, path>>
ManifestEntry(line) ==
    CASE line = <<"u", " ", "a", "\n">> -> << <<"u">>, <<"a">> >>
      [] line = <<"v", " ", "b">> -> << <<"v">>, <<"b">> >>
      [] line = <<" ", "u", "\t", " ", "a", " ", "\n">> -> << <<"u">>, <<"a">> >>
      [] OTHER -> None

WellFormedLine(line) == ManifestEntry(line) # None

\* min(n, max_entries), for max_entries >= 0
Cap == IF calib_num < Len(manifest) THEN calib_num ELSE Len(manifest)

ExpectedNames == [k \in 1..Cap |-> ManifestEntry(manifest[k])[1]]

ExpectedPaths == [k \in 1..Cap |-> ManifestEntry(manifest[k])[2]]

\* C6, as stated: for a manifest of well-formed lines and max_entries >= 0 the call
\* returns (names, paths), the first min(n, max_entries) names and paths in file order.
C6_Original_NamesThenPaths ==
    (/\ ppc = "done"
     /\ IsScpName(audio_in)
     /\ manifest # None
     /\ calib_num >= 0
     /\ \A k \in 1..Len(manifest) : WellFormedLine(manifest[k]))
    => pret = <<ExpectedNames, ExpectedPaths>>

\* C6, amended: for a manifest whose first min(n, max_entries) lines are well-formed
\* and max_entries >= 0, the call raises nothing and returns (paths, names), paths
\* first: both of length min(n, max_entries), the i-th name and path being the first
\* and second token of line i; later lines contribute nothing and cause no error.
C6_Amended ==
    (/\ ppc # "idle"
     /\ IsScpName(audio_in)
     /\ manifest # None
     /\ calib_num >= 0
     /\ \A k \in 1..Cap : WellFormedLine(manifest[k]))
    => /\ ppc # "raised"
       /\ pexc = "none"
       /\ Len(name_list) = Len(wav_list)
       /\ Len(name_list) <= Cap
       /\ ppc = "done" => pret = <<ExpectedPaths, ExpectedNames>>

\* three lines, cap 2: the third line, which is malformed, is never parsed
C6_Witness ==
    /\ ppc = "done"
    /\ calib_num = 2
    /\ manifest = << <<"u", " ", "a", "\n">>, <<"v", " ", "b">>, <<"u", "\n">> >>
    /\ pret = << << <<"a">>, <<"b">> >>, << <<"u">>, <<"v">> >> >>

\* C7: for an audio_in that does not end with ".scp", whatever calib_num is, the call
\* opens no file, raises nothing, and yields names = ["test"] and paths = [audio_in].
C7_SingleFile ==
    (ppc # "idle" /\ ~IsScpName(audio_in)) =>
        /\ opened = 0
        /\ pexc = "none"
        /\ ppc \in {"start", "return", "done"}
        /\ ppc \in {"return", "done"} =>
              (name_list = <<Test>> /\ wav_list = <<audio_in>>)
        /\ ppc = "done" =>
              (pret[1] = <<audio_in>> /\ pret[2] = <<Test>> /\ Len(pret) = 2)

C7_Witness ==
    /\ ppc = "done"
    /\ audio_in = <<"a", ".", "w", "a", "v">>
    /\ calib_num = 0
    /\ manifest # None
    /\ name_list = <<Test>>

\* the first of the first min(n, max_entries) lines that is not well-formed
FirstBad ==
    CHOOSE k \in 1..Cap :
        /\ ~WellFormedLine(manifest[k])
        /\ \A j \in 1..(k - 1) : WellFormedLine(manifest[j])

\* C8: when one of the first max_entries lines of a manifest does not split into
\* exactly two tokens, the call never returns: no result is handed back, no line at
\* or after the bad one is taken, the loop cannot end normally, and the call ends
\* only in the unpacking error (ValueError), raised at the bad line.
C8_MalformedLineAborts ==
    (/\ ppc # "idle"
     /\ IsScpName(audio_in)
     /\ manifest # None
     /\ calib_num >= 0
     /\ \E k \in 1..Cap : ~WellFormedLine(manifest[k]))
    => /\ ppc \in {"start", "loop", "raised"}
       /\ pret = None
       /\ Len(name_list) < FirstBad
       /\ Len(wav_list) < FirstBad
       /\ ppc = "loop" => Len(name_list) < Len(lines)
       /\ ppc = "raised" => (pexc = "ValueError" /\ Len(name_list) = FirstBad - 1)

\* a good line, then the single-token line "u"
C8_Witness ==
    /\ ppc = "raised"
    /\ pexc = "ValueError"
    /\ manifest = << <<"v", " ", "b">>, <<"u", "\n">>, <<"u", " ", "a", "\n">> >>
    /\ calib_num = 3
    /\ name_list = << <<"v">> >>

-----------------------------------------------------------------------------
\* Properties of export (checked under SpecExport)

ExportCalls(log, k) ==
    Cardinality({i \in DOMAIN log : log[i] = <<"torch.onnx.export", k>>})

\* _export_model is running for sub-model sub, whose target file exists
TargetPresent ==
    /\ epc \in {"dummy", "exists"}
    /\ fs[ModelNameOf[sub]] # None

\* C9, as stated: while the target file of a sub-model exists, the export step for it
\* computes nothing, calls no graph export and leaves the files as they are.
C9_Original_NoRecomputation ==
    [][TargetPresent => (xlog' = xlog /\ fs' = fs)]_vars

\* C9, amended: an existing file's bytes never change; while the target file of a
\* sub-model exists, the export step for it makes no graph-export call (it does still
\* compute the sub-model's dummy inputs, after export has loaded the model); the
\* graph-export function is called for a sub-model only when its target file is
\* absent, and at most once per sub-model per export run.
C9_Amended ==
    [][/\ \A n \in FileNames : fs[n] # None => fs'[n] = fs[n]
       /\ TargetPresent =>
             /\ fs' = fs
             /\ \A k \in 1..NumSubModels : ExportCalls(xlog', k) = ExportCalls(xlog, k)
       /\ \A k \in 1..NumSubModels :
             /\ ExportCalls(xlog', k) <= 1
             /\ ExportCalls(xlog', k) > ExportCalls(xlog, k) =>
                   /\ fs[ModelNameOf[k]] = None
                   /\ fs'[ModelNameOf[k]] = ExportedBytes(k)]_vars

\* a second export run that found all three files: one from before, two it exported
C9_Witness ==
    /\ run = 2
    /\ epc = "returned"
    /\ fs = [n \in FileNames |->
                IF n = "ctc" THEN OldBytes
                ELSE IF n = "encoder" THEN ExportedBytes(1) ELSE ExportedBytes(2)]
    /\ xlog = << <<"build_model_from_file", 0>>, <<"get_dummy_inputs", 1>>,
                 <<"get_dummy_inputs", 2>>, <<"get_dummy_inputs", 3>> >>

====
